---- MODULE Spec2Model ----
(***************************************************************************)
(* Dependency resolution and install / uninstall planning of the mip       *)
(* package manager (src/mip_client/commands.py).                           *)
(*                                                                         *)
(* The package index maps package names to their declared dependency       *)
(* lists; local storage holds one location per installed package, each     *)
(* with a local manifest (mip.json) that declares dependencies.            *)
(***************************************************************************)
EXTENDS Integers, Sequences, FiniteSets, TLC

(* ------------------------------------------------------------------ *)
(* Bounds of the model                                                  *)
(* ------------------------------------------------------------------ *)

\* number of distinct package names that occur anywhere
NumPkgs == 3

\* longest dependency list of an index entry or of a local manifest
MaxDeps == 2

PkgNames == <<"A", "B", "C", "D", "E", "F">>

Names == {PkgNames[i] : i \in 1..NumPkgs}

Range(s) == {s[i] : i \in 1..Len(s)}

SeqsUpTo(S, n) == UNION {[1..k -> S] : k \in 0..n}

\* the dependency lists an index entry or a manifest can declare
DepLists == SeqsUpTo(Names, MaxDeps)

\* most dependencies that the entries of one index, or the manifests of
\* one local storage, declare in total
MaxEdges == 3

Min(a, b) == IF a < b THEN a ELSE b

RECURSIVE DepMaps(_, _)

\* the functions from the names of P to dependency lists that declare
\* at most e dependencies in total
DepMaps(P, e) ==
    IF P = {} THEN {<<>>}
    ELSE LET p == CHOOSE q \in P : TRUE IN
         UNION {LET rest == DepMaps(P \ {p}, e - k) IN
                {[q \in P |-> IF q = p THEN l ELSE f[q]] :
                    f \in rest, l \in [1..k -> Names]} :
                k \in 0..Min(MaxDeps, e)}

\* every package index: names that are absent from the index are outside
\* the domain
Indices == UNION {DepMaps(P, MaxEdges) : P \in SUBSET Names}

\* all orders in which a set can be iterated
Perms(S) == {p \in [1..Cardinality(S) -> S] : Range(p) = S}

NoDuplicates(s) == \A i, j \in 1..Len(s) : s[i] = s[j] => i = j

Pos(s, x) == CHOOSE i \in 1..Len(s) : s[i] = x

\* the elements of s that satisfy membership in S, in the order of s
RECURSIVE Restrict(_, _)
Restrict(s, S) ==
    IF s = <<>> THEN <<>>
    ELSE IF Head(s) \in S THEN <<Head(s)>> \o Restrict(Tail(s), S)
    ELSE Restrict(Tail(s), S)

\* longest list of names given to one install or uninstall command
MaxReq == 2

\* the package_names a command can be given
Requests == SeqsUpTo(Names, MaxReq) \ {<<>>}

VARIABLES
    index,          \* the parsed package index: name -> dependency list
    store,          \* local storage: name -> state of its location and
                    \* the dependencies its local manifest declares
    pc,             \* position of the running operation
    package_name,   \* argument of the function applied
    ret,            \* what the function applied returned
    package_names,  \* the names given to the command
    all_packages_to_install,  \* the ordered required-set
    to_install,     \* the install list
    already_installed,
    installed_count,
    outcome,        \* how the operation ended
    store0,         \* local storage as it was when the operation began
    prev_outcome,   \* how the operation before this one ended
    requested_packages,   \* the requested names that are installed
    not_installed,
    all_to_uninstall,     \* the set of names to uninstall
    to_uninstall,         \* the uninstall list
    position,             \* entries of to_uninstall gone through
    uninstalled_count,
    response,             \* the answer to the confirmation prompt
    command,        \* the command given: "install" or "uninstall"
    mhl_sources,    \* the .mhl sources given to the install command
    dep_position,   \* dependencies of the .mhl source gone through
    nested,         \* the locals of the install_package call that
                    \* _install_from_mhl makes for a dependency
    summary         \* the count of the closing summary line, -1 when no
                    \* summary line was printed

installVars == <<all_packages_to_install, to_install, already_installed,
                 installed_count>>

uninstallVars == <<requested_packages, not_installed, all_to_uninstall,
                   to_uninstall, position, uninstalled_count, response>>

runVars == <<package_names, outcome, store0, prev_outcome>>

mhlVars == <<dep_position, nested>>

vars == <<index, store, pc, package_name, ret, installVars, uninstallVars,
          runVars, command, mhl_sources, mhlVars, summary>>

\* no install_package call is made by _install_from_mhl
NoNested == [to_install |-> <<>>, installed_count |-> 0]

\* a location that does not exist
NoPackage == [state |-> "none", dependencies |-> <<>>]

EmptyStore == [n \in Names |-> NoPackage]

\* package_dir.exists()
Exists(st, n) == st[n].state # "none"

Installed(st) == {n \in Names : Exists(st, n)}

(* ------------------------------------------------------------------ *)
(* _build_dependency_graph                                              *)
(* ------------------------------------------------------------------ *)

\* variant: membership in the shared visited set is taken for a cycle
ClassifyVisitedIsCycle(name, idx, visited, path) ==
    IF name \in Range(path) \/ name \in visited THEN "cycle"
    ELSE IF name \notin DOMAIN idx THEN "notfound"
    ELSE "expand"

\* variant: the visited check comes before the path check
ClassifyVisitedFirst(name, idx, visited, path) ==
    IF name \in visited THEN "visited"
    ELSE IF name \in Range(path) THEN "cycle"
    ELSE IF name \notin DOMAIN idx THEN "notfound"
    ELSE "expand"

\* the checks at the head of _build_dependency_graph, in the code's order
Classify(name, idx, visited, path) ==
    IF name \in Range(path) THEN "cycle"
    ELSE IF name \in visited THEN "visited"
    ELSE IF name \notin DOMAIN idx THEN "notfound"
    ELSE "expand"

RECURSIVE BuildDependencyGraph(_, _, _, _)
RECURSIVE BuildDependencies(_, _, _, _, _, _)

\* returns the outcome (sys.exit is an outcome that ends every enclosing
\* call), the result list, the shared visited set as mutated, and the
\* chain of names printed with the error
BuildDependencyGraph(name, idx, visited, path) ==
    LET c == Classify(name, idx, visited, path) IN
    CASE c = "cycle" ->
            [status |-> "CircularDependency", result |-> <<>>,
             visited |-> visited, report |-> Append(path, name)]
      [] c = "visited" ->
            [status |-> "ok", result |-> <<>>,
             visited |-> visited, report |-> <<>>]
      [] c = "notfound" ->
            [status |-> "NotFound", result |-> <<>>,
             visited |-> visited, report |-> <<name>>]
      [] OTHER ->
            LET r == BuildDependencies(idx[name], 1, idx,
                                       visited \cup {name},
                                       Append(path, name), <<>>)
            IN  IF r.status = "ok"
                THEN [r EXCEPT !.result = Append(r.result, name)]
                ELSE r

\* the loop over package_info['dependencies']: each call gets a copy of
\* the path and the shared visited set
BuildDependencies(deps, i, idx, visited, path, result) ==
    IF i > Len(deps)
    THEN [status |-> "ok", result |-> result,
          visited |-> visited, report |-> <<>>]
    ELSE LET r == BuildDependencyGraph(deps[i], idx, visited, path) IN
         IF r.status # "ok" THEN r
         ELSE BuildDependencies(deps, i + 1, idx, r.visited, path,
                                result \o r.result)

NoRet == [status |-> "none", result |-> <<>>, visited |-> {},
          report |-> <<>>, expanded |-> <<>>]

(* ------------------------------------------------------------------ *)
(* Specification SpecResolve: _build_dependency_graph applied to every  *)
(* index and every requested name, with a fresh visited set and path    *)
(* ------------------------------------------------------------------ *)

\* no function has been applied and no command has run
NothingRun ==
    /\ pc = "ready"
    /\ package_name = "A"
    /\ ret = NoRet
    /\ all_packages_to_install = <<>>
    /\ to_install = <<>>
    /\ already_installed = <<>>
    /\ installed_count = 0
    /\ outcome = "none"
    /\ store0 = store
    /\ prev_outcome = "none"
    /\ requested_packages = <<>>
    /\ not_installed = <<>>
    /\ all_to_uninstall = {}
    /\ to_uninstall = <<>>
    /\ position = 0
    /\ uninstalled_count = 0
    /\ response = ""
    /\ dep_position = 0
    /\ nested = NoNested
    /\ summary = -1

InitResolve ==
    /\ index \in Indices
    /\ store = EmptyStore
    /\ package_names = <<>>
    /\ command = "none"
    /\ mhl_sources = <<>>
    /\ NothingRun

CallBuildDependencyGraph ==
    /\ pc = "ready"
    /\ \E name \in Names :
        /\ package_name' = name
        /\ ret' = BuildDependencyGraph(name, index, {}, <<>>)
    /\ pc' = "returned"
    /\ UNCHANGED <<index, command, mhl_sources, mhlVars, summary,
                   store, installVars, uninstallVars, runVars>>

NextResolve == CallBuildDependencyGraph

SpecResolve == InitResolve /\ [][NextResolve]_vars

(* ------------------------------------------------------------------ *)
(* _topological_sort_packages                                           *)
(* ------------------------------------------------------------------ *)

\* variant: no dependency is visited before the package is appended
DepsToVisitNone(pkg_name, names, idx) == <<>>

\* the dependencies of pkg_name that visit() descends into: those the
\* package_info_map records for it that are in the list to sort
DepsToVisit(pkg_name, names, idx) ==
    IF pkg_name \in DOMAIN idx THEN Restrict(idx[pkg_name], Range(names))
    ELSE <<>>

RECURSIVE Visit(_, _, _, _)
RECURSIVE VisitAll(_, _, _, _, _)

\* visit(pkg_name); st holds the closure's visited set and result list
Visit(pkg_name, names, idx, st) ==
    IF pkg_name \in st.visited THEN st
    ELSE LET st1 == [st EXCEPT !.visited = @ \cup {pkg_name}]
             st2 == VisitAll(DepsToVisit(pkg_name, names, idx), 1,
                             names, idx, st1)
         IN  [st2 EXCEPT !.result = Append(@, pkg_name)]

\* visit() applied to the elements of list from position i on
VisitAll(list, i, names, idx, st) ==
    IF i > Len(list) THEN st
    ELSE VisitAll(list, i + 1, names, idx, Visit(list[i], names, idx, st))

Reverse(s) == [i \in 1..Len(s) |-> s[Len(s) + 1 - i]]

\* variant: a visited package is put at the head of the result
TopologicalSortPrepend(names, idx) ==
    Reverse(VisitAll(names, 1, names, idx,
                     [visited |-> {}, result |-> <<>>]).result)

TopologicalSortPackages(names, idx) ==
    VisitAll(names, 1, names, idx, [visited |-> {}, result |-> <<>>]).result

(* ------------------------------------------------------------------ *)
(* Specification SpecSort: _topological_sort_packages applied to every  *)
(* index and every list of distinct names                               *)
(* ------------------------------------------------------------------ *)

\* the lists that list(all_required) can be
NameLists == UNION {Perms(S) : S \in SUBSET Names}

InitSort ==
    /\ index \in Indices
    /\ store = EmptyStore
    /\ package_names \in NameLists
    /\ mhl_sources = <<>>
    /\ command = "none"
    /\ NothingRun

CallTopologicalSortPackages ==
    /\ pc = "ready"
    /\ all_packages_to_install' =
          TopologicalSortPackages(package_names, index)
    /\ pc' = "sorted"
    /\ UNCHANGED <<index, command, mhl_sources, mhlVars, summary, store,
                   package_name, ret, to_install, already_installed,
                   installed_count, uninstallVars, runVars>>

NextSort == CallTopologicalSortPackages

SpecSort == InitSort /\ [][NextSort]_vars

(* ------------------------------------------------------------------ *)
(* install_package                                                      *)
(* ------------------------------------------------------------------ *)

RECURSIVE ResolveRequestedSkipFailed(_, _, _, _)

\* variant: a requested name whose resolution fails is left out and the
\* rest of the request is planned
ResolveRequestedSkipFailed(repo_packages, i, idx, all_required) ==
    IF i > Len(repo_packages)
    THEN [status |-> "ok", required |-> all_required, report |-> <<>>]
    ELSE LET r == BuildDependencyGraph(repo_packages[i], idx, {}, <<>>) IN
         ResolveRequestedSkipFailed(repo_packages, i + 1, idx,
                                    all_required \cup Range(r.result))

RECURSIVE ResolveRequested(_, _, _, _)

\* the loop that builds all_required: one _build_dependency_graph call
\* per requested name, each with a fresh visited set and path
ResolveRequested(repo_packages, i, idx, all_required) ==
    IF i > Len(repo_packages)
    THEN [status |-> "ok", required |-> all_required, report |-> <<>>]
    ELSE LET r == BuildDependencyGraph(repo_packages[i], idx, {}, <<>>) IN
         IF r.status # "ok"
         THEN [status |-> r.status, required |-> {}, report |-> r.report]
         ELSE ResolveRequested(repo_packages, i + 1, idx,
                               all_required \cup Range(r.result))

\* variant: the two lists are filled the wrong way round
PartitionSwapped(ordered, st) ==
    [to_install |-> Restrict(ordered, Installed(st)),
     already_installed |-> Restrict(ordered, Names \ Installed(st))]

\* variant: nothing is filtered out
PartitionNoFilter(ordered, st) ==
    [to_install |-> ordered,
     already_installed |-> Restrict(ordered, Installed(st))]

\* the filter of already installed packages
Partition(ordered, st) ==
    [to_install |-> Restrict(ordered, Names \ Installed(st)),
     already_installed |-> Restrict(ordered, Installed(st))]

\* what the archive of a package unpacks to: the package with the
\* manifest of its index entry
Unpacked(idx, n) == [state |-> "complete", dependencies |-> idx[n]]

\* what a failed _download_and_install can leave behind: nothing (the
\* download failed), a location that holds a part of the package (the
\* extraction failed), or the whole package (the clean-up failed)
Interrupted(idx, n) ==
    {NoPackage, [state |-> "partial", dependencies |-> <<>>], Unpacked(idx, n)}

Terminated == {"ready", "done", "exit"}

\* install_package, for a request of repository names, up to the end of
\* phase 1, the filter that follows it and the display of the plan (which
\* repeats calls of _build_dependency_graph that have returned before);
\* order is the order in which list(all_required) lists the set; the
\* command is run, and after it ended it is run once more
InstallPackage ==
    /\ command = "install"
    /\ pc \in Terminated
    /\ pc = "ready" \/ prev_outcome = "none"
    /\ package_names \o mhl_sources # <<>>
    /\ dep_position' = 0
    /\ nested' = NoNested
    /\ summary' = -1
    /\ store0' = store
    /\ prev_outcome' = outcome
    /\ installed_count' = 0
    /\ LET res == ResolveRequested(package_names, 1, index, {}) IN
       IF res.status # "ok"
       THEN /\ pc' = "exit"
            /\ outcome' = res.status
            /\ ret' = [NoRet EXCEPT !.status = res.status,
                                    !.report = res.report]
            /\ all_packages_to_install' = <<>>
            /\ to_install' = <<>>
            /\ already_installed' = <<>>
       ELSE \E order \in Perms(res.required) :
            LET sorted == TopologicalSortPackages(order, index)
                parts == Partition(sorted, store)
            IN  /\ pc' = "execute"
                /\ outcome' = "running"
                /\ ret' = NoRet
                /\ all_packages_to_install' = sorted
                /\ to_install' = parts.to_install
                /\ already_installed' = parts.already_installed
    /\ UNCHANGED <<index, command, mhl_sources, store, package_name,
                   package_names, uninstallVars>>

\* one round of the phase-2 loop: _download_and_install of the next
\* package of to_install; an exception raised in it ends the run
DownloadAndInstall ==
    /\ pc = "execute"
    /\ installed_count < Len(to_install)
    /\ LET pkg_name == to_install[installed_count + 1] IN
       \/ /\ store' = [store EXCEPT ![pkg_name] = Unpacked(index, pkg_name)]
          /\ installed_count' = installed_count + 1
          /\ UNCHANGED <<pc, outcome>>
       \/ /\ \E left \in Interrupted(index, pkg_name) :
                store' = [store EXCEPT ![pkg_name] = left]
          /\ pc' = "exit"
          /\ outcome' = "ExecutionFailure"
          /\ UNCHANGED installed_count
    /\ UNCHANGED <<index, command, mhl_sources, mhlVars, summary,
                   package_name, ret, package_names,
                   all_packages_to_install, to_install, already_installed,
                   store0, prev_outcome, uninstallVars>>

\* the end of install_package: the loop is over, the summary is printed
InstallSummary ==
    /\ pc = "execute"
    /\ installed_count = Len(to_install) + Len(mhl_sources)
    /\ summary' = installed_count
    /\ pc' = "done"
    /\ outcome' = "ok"
    /\ UNCHANGED <<index, command, mhl_sources, mhlVars,
                   store, package_name, ret, installVars,
                   package_names, store0, prev_outcome, uninstallVars>>

(* ------------------------------------------------------------------ *)
(* _install_from_mhl                                                    *)
(* ------------------------------------------------------------------ *)

\* a .mhl source that cannot be read as a package: the file is missing,
\* is no zip archive, or its mip.json is missing, unreadable or without
\* a package name
InvalidMhl == [package |-> "", dependencies |-> <<>>]

\* the .mhl sources whose mip.json declares at most e dependencies
MhlArchives(e) ==
    {InvalidMhl} \cup
    {[package |-> n, dependencies |-> d] :
        n \in Names, d \in SeqsUpTo(Names, Min(MaxDeps, e))}

\* the .mhl source that the second loop of phase 2 is at
CurrentMhl == mhl_sources[installed_count - Len(to_install) + 1]

\* what a failed copy into the package location can leave there: what
\* was there before, or a part of the package with or without a manifest
CopyInterrupted(loc, mhl) ==
    {loc,
     [state |-> "partial", dependencies |-> <<>>],
     [state |-> "partial", dependencies |-> mhl.dependencies],
     [state |-> "partial", dependencies |-> loc.dependencies]}

\* variant: every dependency of the source is taken to be installed
DependencyPresentAlways(st, dep) == TRUE

\* the test made for each dependency of the source: dep_dir.exists()
DependencyPresent(st, dep) == Exists(st, dep)

\* one round of the loop over mhl_sources, up to the dependencies:
\* the source is read; an unreadable source ends the run, a package whose
\* location exists is counted and left alone
InstallFromMhl ==
    /\ pc = "execute"
    /\ installed_count >= Len(to_install)
    /\ installed_count < Len(to_install) + Len(mhl_sources)
    /\ IF CurrentMhl.package = ""
       THEN /\ pc' = "exit"
            /\ outcome' = "InvalidMhl"
            /\ UNCHANGED installed_count
       ELSE IF Exists(store, CurrentMhl.package)
       THEN /\ installed_count' = installed_count + 1
            /\ UNCHANGED <<pc, outcome>>
       ELSE /\ pc' = "mhl_dependencies"
            /\ UNCHANGED <<installed_count, outcome>>
    /\ dep_position' = 0
    /\ UNCHANGED <<index, command, mhl_sources, nested, summary, store,
                   package_name, ret, package_names,
                   all_packages_to_install, to_install, already_installed,
                   store0, prev_outcome, uninstallVars>>

\* one round of the loop over the dependencies of the source: a
\* dependency whose location does not exist is installed by a call of
\* install_package, taken here up to the end of its phase 1
InstallDependency ==
    /\ pc = "mhl_dependencies"
    /\ dep_position < Len(CurrentMhl.dependencies)
    /\ LET dep == CurrentMhl.dependencies[dep_position + 1] IN
       IF DependencyPresent(store, dep)
       THEN /\ dep_position' = dep_position + 1
            /\ UNCHANGED <<pc, outcome, ret, nested>>
       ELSE LET res == ResolveRequested(<<dep>>, 1, index, {}) IN
            IF res.status # "ok"
            THEN /\ pc' = "exit"
                 /\ outcome' = res.status
                 /\ ret' = [NoRet EXCEPT !.status = res.status,
                                         !.report = res.report]
                 /\ UNCHANGED <<dep_position, nested>>
            ELSE \E order \in Perms(res.required) :
                 LET sorted == TopologicalSortPackages(order, index)
                     parts == Partition(sorted, store)
                 IN  /\ pc' = "nested_execute"
                     /\ nested' = [to_install |-> parts.to_install,
                                   installed_count |-> 0]
                     /\ UNCHANGED <<dep_position, outcome, ret>>
    /\ UNCHANGED <<index, command, mhl_sources, summary, store,
                   package_name, package_names, installVars,
                   store0, prev_outcome, uninstallVars>>

\* one round of the phase-2 loop of the install_package call made for a
\* dependency; an exception raised in it ends the whole run
NestedDownloadAndInstall ==
    /\ pc = "nested_execute"
    /\ nested.installed_count < Len(nested.to_install)
    /\ LET pkg_name == nested.to_install[nested.installed_count + 1] IN
       \/ /\ store' = [store EXCEPT ![pkg_name] = Unpacked(index, pkg_name)]
          /\ nested' = [nested EXCEPT !.installed_count = @ + 1]
          /\ UNCHANGED <<pc, outcome>>
       \/ /\ \E left \in Interrupted(index, pkg_name) :
                store' = [store EXCEPT ![pkg_name] = left]
          /\ pc' = "exit"
          /\ outcome' = "ExecutionFailure"
          /\ UNCHANGED nested
    /\ UNCHANGED <<index, command, mhl_sources, dep_position, summary,
                   package_name, ret, package_names, installVars,
                   store0, prev_outcome, uninstallVars>>

\* the end of the install_package call made for a dependency; the loop
\* over the dependencies goes on
NestedSummary ==
    /\ pc = "nested_execute"
    /\ nested.installed_count = Len(nested.to_install)
    /\ pc' = "mhl_dependencies"
    /\ dep_position' = dep_position + 1
    /\ nested' = NoNested
    /\ UNCHANGED <<index, command, mhl_sources, summary, store,
                   package_name, ret, package_names, installVars,
                   outcome, store0, prev_outcome, uninstallVars>>

\* the end of _install_from_mhl: the location is made and the extracted
\* package is copied into it; an exception raised here ends the run
CopyFromMhl ==
    /\ pc = "mhl_dependencies"
    /\ dep_position = Len(CurrentMhl.dependencies)
    /\ LET mhl == CurrentMhl IN
       \/ /\ store' = [store EXCEPT ![mhl.package] =
                          [state |-> "complete",
                           dependencies |-> mhl.dependencies]]
          /\ installed_count' = installed_count + 1
          /\ pc' = "execute"
          /\ UNCHANGED outcome
       \/ /\ \E left \in CopyInterrupted(store[mhl.package], mhl) :
                store' = [store EXCEPT ![mhl.package] = left]
          /\ pc' = "exit"
          /\ outcome' = "ExecutionFailure"
          /\ UNCHANGED installed_count
    /\ dep_position' = 0
    /\ UNCHANGED <<index, command, mhl_sources, nested, summary,
                   package_name, ret, package_names,
                   all_packages_to_install, to_install, already_installed,
                   store0, prev_outcome, uninstallVars>>

(* ------------------------------------------------------------------ *)
(* Specification SpecInstall: an install command, run on any index and  *)
(* any local storage, and run again after it ended                      *)
(* ------------------------------------------------------------------ *)

\* local storage holding the packages of S as their archives unpack
StoreOf(idx, S) ==
    [n \in Names |-> IF n \in S /\ n \in DOMAIN idx THEN Unpacked(idx, n)
                     ELSE IF n \in S
                     THEN [state |-> "complete", dependencies |-> <<>>]
                     ELSE NoPackage]

InitInstall ==
    /\ index \in Indices
    /\ \E S \in SUBSET Names : store = StoreOf(index, S)
    /\ package_names \in Requests
    /\ command = "install"
    /\ mhl_sources = <<>>
    /\ NothingRun

NextInstall ==
    \/ InstallPackage
    \/ DownloadAndInstall
    \/ InstallSummary

SpecInstall == InitInstall /\ [][NextInstall]_vars

(* ------------------------------------------------------------------ *)
(* Specification SpecMhl: an install command that is given .mhl         *)
(* sources, with or without repository names                            *)
(* ------------------------------------------------------------------ *)

\* most .mhl sources given to one install command
MaxMhl == 1

\* most repository names given together with .mhl sources
MaxMixed == 1

RECURSIVE Edges(_, _)

\* the dependencies that the entries of idx for the names of P declare
\* in total
Edges(idx, P) ==
    IF P = {} THEN 0
    ELSE LET p == CHOOSE q \in P : TRUE IN
         Len(idx[p]) + Edges(idx, P \ {p})

InitMhl ==
    /\ index \in Indices
    /\ \E S \in SUBSET Names : store = StoreOf(index, S)
    /\ package_names \in SeqsUpTo(Names, MaxMixed)
    /\ mhl_sources \in
          SeqsUpTo(MhlArchives(MaxEdges - Edges(index, DOMAIN index)),
                   MaxMhl) \ {<<>>}
    /\ command = "install"
    /\ NothingRun

NextMhl ==
    \/ InstallPackage
    \/ DownloadAndInstall
    \/ InstallFromMhl
    \/ InstallDependency
    \/ NestedDownloadAndInstall
    \/ NestedSummary
    \/ CopyFromMhl
    \/ InstallSummary

SpecMhl == InitMhl /\ [][NextMhl]_vars

(* ------------------------------------------------------------------ *)
(* _read_package_dependencies, _find_reverse_dependencies               *)
(* ------------------------------------------------------------------ *)

\* the dependencies read from the manifest of a location; an absent or
\* unreadable manifest reads as no dependencies
ReadPackageDependencies(st, n) == st[n].dependencies

\* variant: the package itself is not skipped in the scan
DependsOnSelfIncluded(pkg_name, name, st) ==
    name \in Range(ReadPackageDependencies(st, pkg_name))

\* the test of the scan: pkg_name is another package and declares name
DependsOn(pkg_name, name, st) ==
    /\ pkg_name # name
    /\ name \in Range(ReadPackageDependencies(st, pkg_name))

\* variant: each call made for a dependent works on a copy of the
\* visited set
VisitedAfterCopy(returned, visited) == visited

\* the visited set after a call made for a dependent: the one set that
\* all calls of a search share
VisitedAfter(returned, visited) == returned

RECURSIVE FindReverseDependencies(_, _, _, _)
RECURSIVE ScanInstalled(_, _, _, _, _, _, _)

\* dirs is the order in which mip_dir.iterdir() lists the locations;
\* returns the list, the shared visited set as mutated, and the names
\* whose scan was run, in the order in which the scans began
FindReverseDependencies(name, st, dirs, visited) ==
    IF name \in visited
    THEN [result |-> <<>>, visited |-> visited, expanded |-> <<>>]
    ELSE ScanInstalled(name, st, dirs, 1, visited \cup {name}, <<>>,
                       <<name>>)

\* the loop over the installed packages, from position i on
ScanInstalled(name, st, dirs, i, visited, reverse_deps, expanded) ==
    IF i > Len(dirs)
    THEN [result |-> reverse_deps, visited |-> visited,
          expanded |-> expanded]
    ELSE IF DependsOn(dirs[i], name, st)
    THEN LET r == FindReverseDependencies(dirs[i], st, dirs, visited) IN
         ScanInstalled(name, st, dirs, i + 1,
                       VisitedAfter(r.visited, visited),
                       (reverse_deps \o <<dirs[i]>>) \o r.result,
                       expanded \o r.expanded)
    ELSE ScanInstalled(name, st, dirs, i + 1, visited, reverse_deps,
                       expanded)

(* ------------------------------------------------------------------ *)
(* _build_uninstall_order                                               *)
(* ------------------------------------------------------------------ *)

\* variant: the packages that pkg_name depends on are visited first
DependentsToVisitReversed(pkg_name, order, st) ==
    Restrict(order, {other \in Range(order) :
                        /\ other # pkg_name
                        /\ other \in Range(ReadPackageDependencies(st, pkg_name))})

\* the packages of the uninstall set that visit() descends into: those
\* other than pkg_name that declare it, in the set's iteration order
DependentsToVisit(pkg_name, order, st) ==
    Restrict(order, {other \in Range(order) :
                        /\ other # pkg_name
                        /\ pkg_name \in Range(ReadPackageDependencies(st, other))})

RECURSIVE UninstallVisit(_, _, _, _)
RECURSIVE UninstallVisitAll(_, _, _, _, _)

\* visit(pkg_name); acc holds the closure's visited set and result list
UninstallVisit(pkg_name, order, st, acc) ==
    IF pkg_name \in acc.visited THEN acc
    ELSE LET acc1 == [acc EXCEPT !.visited = @ \cup {pkg_name}]
             acc2 == UninstallVisitAll(DependentsToVisit(pkg_name, order, st),
                                       1, order, st, acc1)
         IN  [acc2 EXCEPT !.result = Append(@, pkg_name)]

UninstallVisitAll(list, i, order, st, acc) ==
    IF i > Len(list) THEN acc
    ELSE UninstallVisitAll(list, i + 1, order, st,
                           UninstallVisit(list[i], order, st, acc))

\* variant: the set is listed in its iteration order
BuildUninstallOrderUnsorted(order, st) == order

\* order is the order in which the set packages_to_uninstall is iterated
BuildUninstallOrder(order, st) ==
    UninstallVisitAll(order, 1, order, st,
                      [visited |-> {}, result |-> <<>>]).result

(* ------------------------------------------------------------------ *)
(* Specification SpecLocal: _find_reverse_dependencies and              *)
(* _build_uninstall_order applied to every local storage                *)
(* ------------------------------------------------------------------ *)

\* local storage holding the packages of S with the manifests m
StoreWith(S, m) ==
    [n \in Names |-> IF n \in S
                     THEN [state |-> "complete", dependencies |-> m[n]]
                     ELSE NoPackage]

\* every local storage of complete packages
Stores == UNION {{StoreWith(S, m) : m \in DepMaps(S, MaxEdges)} :
                    S \in SUBSET Names}

InitLocal ==
    /\ index = <<>>
    /\ store \in Stores
    /\ package_names = <<>>
    /\ command = "none"
    /\ mhl_sources = <<>>
    /\ NothingRun

CallFindReverseDependencies ==
    /\ pc = "ready"
    /\ \E name \in Names, dirs \in Perms(Installed(store)) :
        /\ package_name' = name
        /\ LET r == FindReverseDependencies(name, store, dirs, {}) IN
           ret' = [NoRet EXCEPT !.status = "ok", !.result = r.result,
                                !.visited = r.visited,
                                !.expanded = r.expanded]
    /\ pc' = "find_returned"
    /\ UNCHANGED <<index, command, mhl_sources, mhlVars, summary,
                   store, installVars, uninstallVars, runVars>>

CallBuildUninstallOrder ==
    /\ pc = "ready"
    /\ \E S \in SUBSET Installed(store) : \E order \in Perms(S) :
        /\ all_to_uninstall' = S
        /\ to_uninstall' = BuildUninstallOrder(order, store)
    /\ pc' = "order_returned"
    /\ UNCHANGED <<index, command, mhl_sources, mhlVars, summary,
                   store, package_name, ret, installVars, runVars,
                   requested_packages, not_installed, position,
                   uninstalled_count, response>>

NextLocal ==
    \/ CallFindReverseDependencies
    \/ CallBuildUninstallOrder

SpecLocal == InitLocal /\ [][NextLocal]_vars

\* a function that is called runs
SpecLocalFair == SpecLocal /\ WF_vars(NextLocal)

(* ------------------------------------------------------------------ *)
(* uninstall_package                                                    *)
(* ------------------------------------------------------------------ *)

\* variant: the requested names are taken as they are
RequestedPackagesUnchecked(names, st) == names

\* the requested names whose location exists, in the order requested
RequestedPackages(names, st) == Restrict(names, Installed(st))

\* the requested names whose location does not exist
NotInstalled(names, st) == Restrict(names, Names \ Installed(st))

\* all_to_uninstall: the requested packages and, for each of them, what
\* _find_reverse_dependencies returns, each call with a fresh visited set
AllToUninstall(requested, st, dirs) ==
    Range(requested) \cup
    UNION {Range(FindReverseDependencies(requested[i], st, dirs, {}).result) :
              i \in 1..Len(requested)}

\* the answers the prompt can be given
Responses == {"y", "yes", "Y", "YES", "n", ""}

\* response.lower()
Lower(r) == IF r = "Y" THEN "y" ELSE IF r = "YES" THEN "yes" ELSE r

\* variant: every answer but "n" is taken for a yes
ConfirmedUnlessNo(r) == Lower(r) # "n"

\* the test of the answer: response.lower() in ['y', 'yes']
Confirmed(r) == Lower(r) \in {"y", "yes"}

\* variant: a failed removal is passed over and the loop goes on
RemovalFailureSkips(p) == [pc |-> "remove", position |-> p + 1]

\* the except branch of the removal loop: sys.exit(1) at the entry
RemovalFailure(p) == [pc |-> "exit", position |-> p]

\* what an interrupted shutil.rmtree can leave of a location: all of
\* it, or a part of it with or without its manifest
RemovalInterrupted(loc) ==
    {loc,
     [state |-> "partial", dependencies |-> loc.dependencies],
     [state |-> "partial", dependencies |-> <<>>]}

\* uninstall_package up to the confirmation prompt: phase 1 and the
\* display of the plan; dirs is the order of mip_dir.iterdir(), order
\* the iteration order of the set all_to_uninstall
UninstallPackage ==
    /\ command = "uninstall"
    /\ pc = "ready"
    /\ package_names \in Requests
    /\ summary' = -1
    /\ store0' = store
    /\ prev_outcome' = outcome
    /\ position' = 0
    /\ uninstalled_count' = 0
    /\ response' = ""
    /\ not_installed' = NotInstalled(package_names, store)
    /\ LET requested == RequestedPackages(package_names, store) IN
       /\ requested_packages' = requested
       /\ IF requested = <<>>
          THEN /\ pc' = "done"
               /\ outcome' = "NothingToUninstall"
               /\ all_to_uninstall' = {}
               /\ to_uninstall' = <<>>
          ELSE \E dirs \in Perms(Installed(store)) :
               LET all == AllToUninstall(requested, store, dirs) IN
               \E order \in Perms(all) :
                  /\ pc' = "confirm"
                  /\ outcome' = "running"
                  /\ all_to_uninstall' = all
                  /\ to_uninstall' = BuildUninstallOrder(order, store)
    /\ UNCHANGED <<index, command, mhl_sources, mhlVars,
                   store, package_name, ret, package_names,
                   installVars>>

\* the confirmation prompt and the test of the answer
ConfirmUninstall ==
    /\ pc = "confirm"
    /\ \E r \in Responses :
        /\ response' = r
        /\ IF Confirmed(r)
           THEN pc' = "remove" /\ outcome' = outcome
           ELSE pc' = "done" /\ outcome' = "Cancelled"
    /\ UNCHANGED <<index, command, mhl_sources, mhlVars, summary,
                   store, package_name, ret, package_names,
                   installVars, store0, prev_outcome, requested_packages,
                   not_installed, all_to_uninstall, to_uninstall, position,
                   uninstalled_count>>

\* one round of the phase-2 loop: the next package of to_uninstall is
\* removed if its location exists; an exception of shutil.rmtree ends
\* the run
RemovePackage ==
    /\ pc = "remove"
    /\ position < Len(to_uninstall)
    /\ LET pkg == to_uninstall[position + 1] IN
       IF ~Exists(store, pkg)
       THEN /\ position' = position + 1
            /\ UNCHANGED <<store, pc, outcome, uninstalled_count>>
       ELSE \/ /\ store' = [store EXCEPT ![pkg] = NoPackage]
               /\ position' = position + 1
               /\ uninstalled_count' = uninstalled_count + 1
               /\ UNCHANGED <<pc, outcome>>
            \/ /\ \E left \in RemovalInterrupted(store[pkg]) :
                     store' = [store EXCEPT ![pkg] = left]
               /\ pc' = RemovalFailure(position).pc
               /\ position' = RemovalFailure(position).position
               /\ outcome' = "ExecutionFailure"
               /\ UNCHANGED uninstalled_count
    /\ UNCHANGED <<index, command, mhl_sources, mhlVars, summary,
                   package_name, ret, package_names, installVars,
                   store0, prev_outcome, requested_packages, not_installed,
                   all_to_uninstall, to_uninstall, response>>

\* the end of uninstall_package: the loop is over, the summary is printed
UninstallSummary ==
    /\ pc = "remove"
    /\ position = Len(to_uninstall)
    /\ summary' = uninstalled_count
    /\ pc' = "done"
    /\ outcome' = "ok"
    /\ UNCHANGED <<index, command, mhl_sources, mhlVars,
                   store, package_name, ret, package_names,
                   installVars, store0, prev_outcome, uninstallVars>>

(* ------------------------------------------------------------------ *)
(* Specification SpecUninstall: an uninstall command run on any local   *)
(* storage                                                              *)
(* ------------------------------------------------------------------ *)

InitUninstall ==
    /\ index = <<>>
    /\ store \in Stores
    /\ package_names \in Requests
    /\ command = "uninstall"
    /\ mhl_sources = <<>>
    /\ NothingRun

NextUninstall ==
    \/ UninstallPackage
    \/ ConfirmUninstall
    \/ RemovePackage
    \/ UninstallSummary

SpecUninstall == InitUninstall /\ [][NextUninstall]_vars

(* ------------------------------------------------------------------ *)
(* Specification SpecCommands: an install command, with or without      *)
(* .mhl sources, or an uninstall command                                *)
(* ------------------------------------------------------------------ *)

InitCommands ==
    \/ InitInstall
    \/ InitMhl
    \/ InitUninstall

NextCommands ==
    \/ NextMhl
    \/ NextUninstall

SpecCommands == InitCommands /\ [][NextCommands]_vars

(* ------------------------------------------------------------------ *)
(* The dependency relation of an index, stated without the traversal    *)
(* ------------------------------------------------------------------ *)

DeclaredDeps(idx, p) == IF p \in DOMAIN idx THEN Range(idx[p]) ELSE {}

RECURSIVE ReachFrom(_, _)
ReachFrom(idx, S) ==
    LET S2 == S \cup UNION {DeclaredDeps(idx, p) : p \in S} IN
    IF S2 = S THEN S ELSE ReachFrom(idx, S2)

\* the names reachable from n, n included
Closure(idx, n) == ReachFrom(idx, {n})

OnCycle(idx, m) == \E d \in DeclaredDeps(idx, m) : m \in Closure(idx, d)

CycleReachable(idx, n) == \E m \in Closure(idx, n) : OnCycle(idx, m)

\* every element of s comes after all of its declared dependencies
DependencyFirst(idx, s) ==
    \A i \in 1..Len(s) : \A d \in DeclaredDeps(idx, s[i]) :
        \E j \in 1..(i - 1) : s[j] = d

\* every name of the chain declares the next one
ChainOfDeps(idx, c) ==
    \A i \in 1..(Len(c) - 1) : c[i + 1] \in DeclaredDeps(idx, c[i])

(* ------------------------------------------------------------------ *)
(* Claims about _build_dependency_graph                                 *)
(* ------------------------------------------------------------------ *)

Resolvable(idx, n) ==
    /\ ~CycleReachable(idx, n)
    /\ Closure(idx, n) \subseteq DOMAIN idx

\* C1: on an index whose graph reachable from the requested name is
\* acyclic with every reachable name present, the call returns (no
\* circular dependency is reported, diamonds included) and the result
\* holds exactly the reachable names, each once, dependencies first.
C1_AcyclicClosure ==
    (pc = "returned" /\ Resolvable(index, package_name)) =>
        /\ ret.status = "ok"
        /\ Range(ret.result) = Closure(index, package_name)
        /\ NoDuplicates(ret.result)
        /\ DependencyFirst(index, ret.result)

\* a dependency reached through two branches of an acyclic graph
C1_Witness ==
    /\ pc = "returned"
    /\ Resolvable(index, package_name)
    /\ ret.status = "ok"
    /\ \E d \in Range(ret.result) :
        Cardinality({p \in Range(ret.result) :
                        d \in DeclaredDeps(index, p)}) >= 2

\* C2 as stated: on an index with a cycle reachable from the requested
\* package the call ends in CircularDependency and in nothing else.
C2_CycleAlwaysCircular ==
    (pc = "returned" /\ CycleReachable(index, package_name)) =>
        ret.status = "CircularDependency"

\* C2 as amended: on an index with a cycle reachable from the requested
\* package the call never returns a closure; it ends in
\* CircularDependency when every reachable name is in the index, and
\* otherwise in CircularDependency or in package-not-found for a
\* reachable name that is absent from the index.
C2_CycleNeverReturns ==
    (pc = "returned" /\ CycleReachable(index, package_name)) =>
        /\ ret.status \in {"CircularDependency", "NotFound"}
        /\ ret.result = <<>>
        /\ Closure(index, package_name) \subseteq DOMAIN index
              => ret.status = "CircularDependency"
        /\ ret.status = "NotFound" =>
              /\ ret.report[1] \in Closure(index, package_name)
              /\ ret.report[1] \notin DOMAIN index

C2_Witness ==
    /\ pc = "returned"
    /\ CycleReachable(index, package_name)
    /\ ~OnCycle(index, package_name)
    /\ Closure(index, package_name) \subseteq DOMAIN index
    /\ ret.status = "CircularDependency"

\* C3: whenever resolution fails with a circular dependency, the chain
\* of names reported is a true cycle: every name declares the next one
\* and the first and the last name are the same.
C3_ReportedChainIsCycle ==
    (pc = "returned" /\ ret.status = "CircularDependency") =>
        /\ ChainOfDeps(index, ret.report)
        /\ Len(ret.report) >= 2
        /\ ret.report[1] = ret.report[Len(ret.report)]

(* ------------------------------------------------------------------ *)
(* Claims about install_package                                         *)
(* ------------------------------------------------------------------ *)

\* phase 1 of the running or last operation ended with a plan
Planned ==
    \/ pc \in {"execute", "done"}
    \/ pc = "exit" /\ outcome = "ExecutionFailure"

RequestedClosure ==
    UNION {Closure(index, package_names[i]) : i \in 1..Len(package_names)}

AllResolvable ==
    \A i \in 1..Len(package_names) : Resolvable(index, package_names[i])

\* no plan was produced and nothing was installed
NothingPlanned ==
    /\ pc = "exit"
    /\ all_packages_to_install = <<>>
    /\ to_install = <<>>
    /\ already_installed = <<>>
    /\ installed_count = 0
    /\ store = store0

\* C4 as stated: when a requested name is absent from the index,
\* planning fails with package-not-found, no plan is produced, not even
\* a partial one, and install_package installs nothing.
C4_AbsentNameIsNotFound ==
    ( /\ pc # "ready"
      /\ \E i \in 1..Len(package_names) : package_names[i] \notin DOMAIN index )
    => (outcome = "NotFound" /\ NothingPlanned)

\* C4 as amended: when a requested name, or a name reachable from one,
\* is absent from the index, planning fails, no plan is produced, not
\* even a partial one, and install_package installs nothing; the failure
\* is package-not-found unless a dependency cycle is reachable from a
\* requested name, and then package-not-found or CircularDependency.
C4_AbsentNameAbortsPlanning ==
    /\ (pc # "ready" /\ ~(RequestedClosure \subseteq DOMAIN index)) =>
        /\ outcome \in {"NotFound", "CircularDependency"}
        /\ NothingPlanned
        /\ (\A i \in 1..Len(package_names) :
                ~CycleReachable(index, package_names[i]))
              => outcome = "NotFound"
    /\ (pc # "ready" /\ package_names[1] \notin DOMAIN index)
       => outcome = "NotFound"
    /\ outcome = "NotFound" =>
        /\ NothingPlanned
        /\ ret.report[1] \in RequestedClosure \ DOMAIN index

\* a request of two names: the first resolves completely and is not
\* installed, the second does not resolve
C4_Witness ==
    /\ outcome = "NotFound"
    /\ Len(package_names) = 2
    /\ Resolvable(index, package_names[1])
    /\ ~Exists(store, package_names[1])
    /\ package_names[2] \in DOMAIN index

\* C5: the ordered required-set of a request of several names holds
\* exactly the union of the closures of the requested names, each name
\* once, every package after all of its declared dependencies, whatever
\* the order of the request and the iteration order of the combined set.
C5_RequiredSetIsOrderedUnion ==
    /\ (pc # "ready" /\ AllResolvable) => Planned
    /\ Planned =>
        /\ Range(all_packages_to_install) = RequestedClosure
        /\ NoDuplicates(all_packages_to_install)
        /\ DependencyFirst(index, all_packages_to_install)

\* {A, B} requested where the one depends on the other
C5_Witness ==
    /\ Planned
    /\ Len(package_names) = 2
    /\ package_names[1] # package_names[2]
    /\ package_names[1] \in DeclaredDeps(index, package_names[2])
    /\ Len(all_packages_to_install) = NumPkgs

\* C6: the ordered required-set is partitioned by local presence: a
\* name is in the already-installed list exactly when its location
\* exists, every other name is in the install list, the lists share no
\* name, and the install list keeps the dependency-first order.
C6_PartitionByPresence ==
    Planned =>
        /\ Range(already_installed)
              = Range(all_packages_to_install) \cap Installed(store0)
        /\ Range(to_install)
              = Range(all_packages_to_install) \ Installed(store0)
        /\ Range(to_install) \cap Range(already_installed) = {}
        /\ NoDuplicates(to_install)
        /\ \A i, j \in 1..Len(to_install) :
              i < j => Pos(all_packages_to_install, to_install[i])
                          < Pos(all_packages_to_install, to_install[j])
        /\ \A i \in 1..Len(to_install) :
              \A d \in DeclaredDeps(index, to_install[i]) :
                  \/ d \in Installed(store0)
                  \/ \E j \in 1..(i - 1) : to_install[j] = d

C6_Witness ==
    /\ pc = "execute"
    /\ installed_count = 0
    /\ Len(to_install) >= 2
    /\ already_installed # <<>>

\* C7: install is idempotent: when the whole closure of the request is
\* present locally the install list is empty and no location is created,
\* changed or removed; so it is for an install of the same request run
\* right after a successful one.
C7_InstallIdempotent ==
    /\ (Planned /\ RequestedClosure \subseteq Installed(store0)) =>
        /\ to_install = <<>>
        /\ installed_count = 0
        /\ store = store0
    /\ (Planned /\ prev_outcome = "ok") =>
        /\ to_install = <<>>
        /\ installed_count = 0
        /\ store = store0

\* the second of two runs, the first of which installed the packages
C7_Witness ==
    /\ pc = "done"
    /\ prev_outcome = "ok"
    /\ Len(already_installed) >= 2
    /\ to_install = <<>>

(* ------------------------------------------------------------------ *)
(* The dependency relation of the local manifests                       *)
(* ------------------------------------------------------------------ *)

\* the manifests of the installed packages, as an index
LocalManifests(st) ==
    [n \in Installed(st) |-> ReadPackageDependencies(st, n)]

\* the same without the dependencies of packages on themselves
WithoutSelf(m) == [n \in DOMAIN m |-> Restrict(m[n], Names \ {n})]

\* x is reachable from p through one or more depends-on edges of m
DependsOnTransitively(m, p, x) ==
    \E d \in DeclaredDeps(m, p) : x \in Closure(m, d)

(* ------------------------------------------------------------------ *)
(* Claims about _find_reverse_dependencies and _build_uninstall_order   *)
(* ------------------------------------------------------------------ *)

\* C8 as stated: the result is, as a set, exactly the installed packages
\* from which X is reachable through one or more depends-on edges, and
\* it never contains X.
C8_ExactDependentsNeverSelf ==
    pc = "find_returned" =>
        /\ Range(ret.result)
              = {p \in Installed(store) :
                    DependsOnTransitively(LocalManifests(store), p,
                                          package_name)}
        /\ package_name \notin Range(ret.result)

\* C8 as amended: the result is, as a set, exactly the installed
\* packages from which X is reachable through one or more depends-on
\* edges between distinct packages; it contains X exactly when X lies on
\* a dependency cycle of two or more installed packages, so never when
\* the local manifests are acyclic.
C8_ExactDependents ==
    pc = "find_returned" =>
        LET m == WithoutSelf(LocalManifests(store)) IN
        /\ Range(ret.result)
              = {p \in Installed(store) :
                    DependsOnTransitively(m, p, package_name)}
        /\ package_name \in Range(ret.result)
              <=> /\ Exists(store, package_name)
                  /\ OnCycle(m, package_name)
        /\ (\A p \in Installed(store) : ~OnCycle(LocalManifests(store), p))
              => /\ package_name \notin Range(ret.result)
                 /\ Range(ret.result)
                      = {p \in Installed(store) :
                            DependsOnTransitively(LocalManifests(store), p,
                                                  package_name)}

\* a dependent that is one only transitively, on acyclic manifests
C8_Witness ==
    /\ pc = "find_returned"
    /\ \A p \in Installed(store) : ~OnCycle(LocalManifests(store), p)
    /\ \E p \in Range(ret.result) :
          package_name \notin Range(ReadPackageDependencies(store, p))

\* C10 as stated: in the list returned, every name of the set is there
\* exactly once and, for any pair (p, q) of the set where p declares q
\* as a dependency, p is before q, for every iteration order of the set.
C10_DependentsFirst ==
    pc = "order_returned" =>
        /\ Range(to_uninstall) = all_to_uninstall
        /\ NoDuplicates(to_uninstall)
        /\ \A p, q \in all_to_uninstall :
              q \in Range(ReadPackageDependencies(store, p))
                 => Pos(to_uninstall, p) < Pos(to_uninstall, q)

\* the manifests of the packages of S, restricted to S
ManifestsWithin(st, S) ==
    [n \in S |-> Restrict(ReadPackageDependencies(st, n), S)]

\* C10 as amended: every name of the set is in the list exactly once,
\* for every iteration order of the set; and for any pair (p, q) of the
\* set where p declares q as a dependency and q does not depend on p,
\* directly or through packages of the set, p is before q (so for every
\* such pair when the manifests of the set have no dependency cycle).
C10_DependentsFirstUnlessCycle ==
    pc = "order_returned" =>
        /\ Range(to_uninstall) = all_to_uninstall
        /\ NoDuplicates(to_uninstall)
        /\ \A p, q \in all_to_uninstall :
              ( /\ q \in Range(ReadPackageDependencies(store, p))
                /\ p # q
                /\ ~DependsOnTransitively(
                        ManifestsWithin(store, all_to_uninstall), q, p) )
                 => Pos(to_uninstall, p) < Pos(to_uninstall, q)

\* installed A, B deps [A], C deps [B]: the list is [C, B, A]
C10_Witness ==
    /\ pc = "order_returned"
    /\ Len(to_uninstall) = 3
    /\ to_uninstall[2] \in
          Range(ReadPackageDependencies(store, to_uninstall[1]))
    /\ to_uninstall[3] \in
          Range(ReadPackageDependencies(store, to_uninstall[2]))
    /\ \A p \in Installed(store) : ~OnCycle(LocalManifests(store), p)

(* ------------------------------------------------------------------ *)
(* Claims about uninstall_package                                       *)
(* ------------------------------------------------------------------ *)

\* phase 1 of the running or last uninstall ended with a plan
UninstallPlanned ==
    \/ pc \in {"confirm", "remove"}
    \/ pc \in {"done", "exit"} /\ outcome # "NothingToUninstall"

\* C9: the uninstall plan is exactly the requested names that are
\* installed together with every installed package that depends,
\* directly or transitively, on one of them: requested names that are
\* not installed are excluded, and no installed package that depends on
\* a member of the plan is left out.
C9_UninstallPlan ==
    LET m == LocalManifests(store0)
        requested == Range(package_names) \cap Installed(store0)
    IN  /\ (pc # "ready" /\ requested # {}) => UninstallPlanned
        /\ pc # "ready" =>
            /\ Range(to_uninstall)
                  = requested \cup
                    {p \in Installed(store0) :
                        \E r \in requested : DependsOnTransitively(m, p, r)}
            /\ NoDuplicates(to_uninstall)
            /\ Range(to_uninstall) \cap
                  (Range(package_names) \ Installed(store0)) = {}
            /\ Range(not_installed)
                  = Range(package_names) \ Installed(store0)
            /\ \A p \in Installed(store0), q \in Range(to_uninstall) :
                  q \in DeclaredDeps(m, p) => p \in Range(to_uninstall)

\* one requested name is not installed, and a package that was not
\* requested is in the plan
C9_Witness ==
    /\ pc = "confirm"
    /\ not_installed # <<>>
    /\ Range(to_uninstall) \ Range(package_names) # {}

(* ------------------------------------------------------------------ *)
(* Claims about the two phases of install_package                       *)
(* ------------------------------------------------------------------ *)

\* C11: a failure of dependency resolution (package not found, circular
\* dependency), at any point where install_package resolves dependencies,
\* the dependencies of a .mhl source included, ends the operation before
\* it has created, changed or removed a package storage location.
C11_PlanningFailureLeavesStorage ==
    outcome \in {"NotFound", "CircularDependency"} => store = store0

(* ------------------------------------------------------------------ *)
(* Claims about the execution of uninstall_package                      *)
(* ------------------------------------------------------------------ *)

\* C12: uninstall_package removes no location before the confirmation
\* prompt has been answered with yes; when the answer is anything else,
\* every package installed before the call is still installed, with the
\* same contents, after it.
C12_NoRemovalWithoutYes ==
    /\ response \notin {"y", "yes", "Y", "YES"} => store = store0
    /\ pc \in {"ready", "confirm"} => store = store0
    /\ outcome = "Cancelled" =>
        /\ pc = "done"
        /\ response \notin {"y", "yes", "Y", "YES"}
        /\ \A n \in Installed(store0) : store[n] = store0[n]

\* a plan of several packages was shown and the prompt was answered
\* with something other than yes
C12_Witness ==
    /\ outcome = "Cancelled"
    /\ response = ""
    /\ Len(to_uninstall) >= 2
    /\ Range(to_uninstall) \subseteq Installed(store)

(* ------------------------------------------------------------------ *)
(* Claims about the execution of a plan, for install and uninstall      *)
(* ------------------------------------------------------------------ *)

\* the entries of to_install that phase 2 has gone through
InstalledEntries ==
    {to_install[i] : i \in 1..Min(installed_count, Len(to_install))}

\* the entries of to_uninstall that phase 2 has gone through
RemovedEntries == {to_uninstall[i] : i \in 1..position}

\* the entries already processed are installed, or removed
ProcessedStayProcessed ==
    /\ command = "install" =>
          \A n \in InstalledEntries : store[n] = Unpacked(index, n)
    /\ command = "uninstall" =>
          \A n \in RemovedEntries : ~Exists(store, n)

\* the entries after the one that failed are as they were
LaterEntriesUntouched ==
    /\ (command = "install" /\ installed_count < Len(to_install)) =>
        /\ \A i \in (installed_count + 2)..Len(to_install) :
              store[to_install[i]] = store0[to_install[i]]
        /\ \A i \in 1..Len(mhl_sources) :
              LET n == mhl_sources[i].package IN
              (n # "" /\ n \notin Range(to_install)) => store[n] = store0[n]
    /\ command = "uninstall" =>
          \A i \in (position + 2)..Len(to_uninstall) :
              store[to_uninstall[i]] = store0[to_uninstall[i]]

\* the step at which an entry fails does not go on to another entry
StopsAtFailure ==
    (outcome # "ExecutionFailure" /\ outcome' = "ExecutionFailure") =>
        /\ pc' = "exit"
        /\ installed_count' = installed_count
        /\ nested'.installed_count = nested.installed_count
        /\ position' = position
        /\ uninstalled_count' = uninstalled_count

\* C13: execution is fail-fast: when fetching and unpacking, or removing,
\* one plan entry fails, the run stops at that entry, no later entry of
\* the plan is processed, and the entries processed before it stay
\* processed.
C13_FailFast ==
    /\ [](outcome = "ExecutionFailure" =>
            pc = "exit" /\ LaterEntriesUntouched)
    /\ []ProcessedStayProcessed
    /\ [][StopsAtFailure]_vars
    /\ [][pc = "exit" => store' = store]_vars

\* the second of three entries failed after the first was installed
C13_Witness ==
    /\ command = "install"
    /\ outcome = "ExecutionFailure"
    /\ installed_count = 1
    /\ Len(to_install) = 3
    /\ store[to_install[2]].state = "partial"

(* ------------------------------------------------------------------ *)
(* Claims about the installation of one package                         *)
(* ------------------------------------------------------------------ *)

\* C14: installing one package is atomic with respect to its location:
\* after any attempt to fetch and unpack a package, failed or not, the
\* location holds the complete package or does not exist, so that a
\* failed attempt never makes a later install plan count the package as
\* already installed.
C14_AtomicInstall ==
    /\ \A n \in Names : store[n].state \in {"none", "complete"}
    /\ (prev_outcome = "ExecutionFailure" /\ pc # "ready") =>
          \A n \in Range(already_installed) : store0[n].state = "complete"

(* ------------------------------------------------------------------ *)
(* Claims about _topological_sort_packages                              *)
(* ------------------------------------------------------------------ *)

\* neither of the two packages depends on the other, directly or
\* transitively
Independent(idx, x, y) ==
    /\ x # y
    /\ x \notin Closure(idx, y)
    /\ y \notin Closure(idx, x)

\* C15 as stated: for any two packages X and Y of the input list where
\* neither depends on the other, directly or transitively, if X is
\* before Y in the input list then X is before Y in the output.
C15_StableForIndependent ==
    pc = "sorted" =>
        \A i, j \in 1..Len(package_names) :
            (i < j /\ Independent(index, package_names[i], package_names[j]))
            => Pos(all_packages_to_install, package_names[i])
                  < Pos(all_packages_to_install, package_names[j])

\* C15 as amended: the output holds the names of the input, each once,
\* and for any two packages X and Y of the input list where neither
\* depends on the other, if X is before Y in the input list and no
\* package before X in the input list depends on Y, then X is before Y
\* in the output.
C15_StableUnlessPulledForward ==
    pc = "sorted" =>
        /\ Range(all_packages_to_install) = Range(package_names)
        /\ NoDuplicates(all_packages_to_install)
        /\ \A i, j \in 1..Len(package_names) :
            ( /\ i < j
              /\ Independent(index, package_names[i], package_names[j])
              /\ \A k \in 1..(i - 1) :
                    package_names[j] \notin Closure(index, package_names[k]) )
            => Pos(all_packages_to_install, package_names[i])
                  < Pos(all_packages_to_install, package_names[j])

\* the input [X, Y, D] with Y depending on D: D is moved before Y and
\* X stays before Y
C15_Witness ==
    /\ pc = "sorted"
    /\ Len(package_names) = 3
    /\ Independent(index, package_names[1], package_names[2])
    /\ package_names[3] \in DeclaredDeps(index, package_names[2])
    /\ all_packages_to_install =
          <<package_names[1], package_names[3], package_names[2]>>

(* ------------------------------------------------------------------ *)
(* Claims about the searches over local storage                         *)
(* ------------------------------------------------------------------ *)

\* C16: _find_reverse_dependencies and _build_uninstall_order terminate
\* for every finite set of installed packages, sets whose local manifests
\* form a diamond or a dependency cycle included, and within one search
\* no package is expanded more than once.
C16_SearchesTerminate ==
    /\ <>(pc \in {"find_returned", "order_returned"})
    /\ [](pc = "find_returned" =>
            /\ NoDuplicates(ret.expanded)
            /\ Range(ret.expanded) = ret.visited
            /\ ret.visited \subseteq Installed(store) \cup {package_name})
    /\ [](pc = "order_returned" =>
            /\ NoDuplicates(to_uninstall)
            /\ Range(to_uninstall) = all_to_uninstall)

\* a search over three installed packages that lie on one cycle, each
\* expanded once
C16_Witness ==
    /\ pc = "find_returned"
    /\ Len(ret.expanded) = 3
    /\ \A p \in Names : Exists(store, p) /\ OnCycle(LocalManifests(store), p)

(* ------------------------------------------------------------------ *)
(* Claims about what an aborted run reports                             *)
(* ------------------------------------------------------------------ *)

\* C17: when the execution of a plan is aborted by a failure on one
\* entry, the operation reports the count of packages it processed
\* successfully before the failure, for install and for uninstall.
C17_PartialCompletionReported ==
    outcome = "ExecutionFailure" =>
        summary = IF command = "install" THEN installed_count
                  ELSE uninstalled_count

(* ------------------------------------------------------------------ *)
(* Claims about the order in which install_package creates locations    *)
(* ------------------------------------------------------------------ *)

\* the locations that the running install has created
CreatedLocations == Installed(store) \ Installed(store0)

\* C18 as stated: at every point of install_package's execution phase,
\* also when the run aborts part-way through the plan, every package
\* whose location this run has created has all of its index-declared
\* dependencies present in local storage.
C18_IndexDependenciesPresent ==
    \A n \in CreatedLocations : DeclaredDeps(index, n) \subseteq Installed(store)

\* the dependencies declared by the source that the step under way
\* installs a package from: the mip.json of the .mhl source, or the
\* index entry of the package
SourceDependencies(n) ==
    IF pc = "mhl_dependencies" THEN Range(CurrentMhl.dependencies)
    ELSE DeclaredDeps(index, n)

\* C18 as amended: at every point of install_package's execution phase,
\* also when the run aborts part-way, every location is created when all
\* the dependencies declared by the source of the package (its index
\* entry for a repository package, its mip.json for a .mhl source) are
\* present in local storage, and no location is removed; a created
\* package that is not the package of a .mhl source has its
\* index-declared dependencies present.
C18_SourceDependenciesPresent ==
    /\ [][\A n \in Names :
            (~Exists(store, n) /\ Exists(store', n))
            => SourceDependencies(n) \subseteq Installed(store)]_vars
    /\ [][Installed(store) \subseteq Installed(store')]_vars
    /\ [](\A n \in CreatedLocations :
            (\A i \in 1..Len(mhl_sources) : mhl_sources[i].package # n)
            => DeclaredDeps(index, n) \subseteq Installed(store))

\* a .mhl source was installed after a call of install_package had
\* installed one of its dependencies, together with that dependency's
\* own dependency
C18_Witness ==
    /\ pc = "done"
    /\ Len(mhl_sources) = 1
    /\ mhl_sources[1].package \in CreatedLocations
    /\ \E d \in Range(mhl_sources[1].dependencies) :
          /\ d # mhl_sources[1].package
          /\ d \in CreatedLocations
          /\ (DeclaredDeps(index, d) \cap CreatedLocations) \ {d} # {}

(* ------------------------------------------------------------------ *)
(* Claims about the order in which uninstall_package removes locations  *)
(* ------------------------------------------------------------------ *)

\* the local manifests were acyclic when the uninstall began
AcyclicManifests ==
    \A p \in Installed(store0) : ~OnCycle(LocalManifests(store0), p)

\* the locations that the running uninstall has removed, or has begun
\* to remove
TouchedLocations == {n \in Names : store[n] # store0[n]}

\* C19: for installed sets whose local manifests are acyclic, at every
\* point of uninstall_package's execution phase, also when the run
\* aborts part-way through the plan, no package still installed declares
\* a dependency on a package that this run has already removed, and no
\* package outside the uninstall plan is removed.
C19_NoDanglingDependents ==
    AcyclicManifests =>
        /\ \A p \in Installed(store) :
              Range(ReadPackageDependencies(store, p)) \cap TouchedLocations
                  = {}
        /\ TouchedLocations \subseteq Range(to_uninstall)
        /\ Installed(store) \subseteq Installed(store0)

\* the run was aborted at the third of three packages, each a
\* dependency of the one before it, after two were removed
C19_Witness ==
    /\ AcyclicManifests
    /\ outcome = "ExecutionFailure"
    /\ uninstalled_count = 2
    /\ Len(to_uninstall) = 3
    /\ to_uninstall[2] \in DeclaredDeps(LocalManifests(store0), to_uninstall[1])
    /\ to_uninstall[3] \in DeclaredDeps(LocalManifests(store0), to_uninstall[2])

====
